---- MODULE Spec2Model ----
(***************************************************************************)
(* Model of the ROCON simple scheduler (concert_simple_scheduler):         *)
(*   resource_pool.py   ResourcePool: matching and multi-item allocation   *)
(*   scheduler_node.py  SimpleSchedulerNode: ready/blocked queues,         *)
(*                      dispatch, periodic reschedule, notification        *)
(* The request handle (ActiveRequest), the Resource objects, the priority  *)
(* queue and the pool operations update/match_list/changed are not part of *)
(* the checked-in sources; they are modelled from the design document.     *)
(***************************************************************************)
EXTENDS Integers, Sequences, FiniteSets, TLC

\* ------------------------------------------------------------------------
\* Bounds
\* ------------------------------------------------------------------------
NumURIs == 2          \* resources known to the conductor: URIs 1..NumURIs
NumRequests == 2      \* request uuids 1..NumRequests
NumRequesters == 2    \* requester ids 1..NumRequesters
AllocURIs == 3        \* URIs 1..AllocURIs of the pools of the allocator check
MaxItems == 3         \* longest pattern list drawn for the allocator check
MaxPriority == 1      \* request priorities 0..MaxPriority
MaxSeq == 4           \* QueueElements constructed in the queue check
BigURIs == 4          \* URIs 1..BigURIs of the pools of the long-request check
BigItems == 4         \* longest pattern list drawn for the long-request check

\* n_wanted > 3: no permutation search
PermCutoff == 3

URIs == 1..NumURIs
Requests == 1..NumRequests
Requesters == 1..NumRequesters
Priorities == 0..MaxPriority

NoOwner == 0          \* Resource.owner is None
Rapps == {"X", "Y"}

\* capability advertised by the client with this URI
RappOf(u) == IF u % 2 = 1 THEN "X" ELSE "Y"

VARIABLES
    pool,               \* ResourcePool.pool: URI -> [status, owner, rapp]
    changed,            \* ResourcePool.changed
    reqs,               \* request handles by uuid
    ready_queue,        \* SimpleSchedulerNode.ready_queue
    blocked_queue,      \* SimpleSchedulerNode.blocked_queue
    sequence,           \* QueueElement sequence counter
    notification_set,   \* SimpleSchedulerNode.notification_set
    last,               \* what the last handler did (observation only)
    probe,              \* a single call of pool.allocate (allocator check)
    lock,               \* holder of the Big Scheduler Lock (sch.lock)
    pc                  \* position of each thread of control

vars == <<pool, changed, reqs, ready_queue, blocked_queue, sequence,
          notification_set, last, probe, lock, pc>>

\* the three threads that enter the node, and no thread
Threads == {"callback", "track_clients", "reschedule"}
NoThread == "none"
threads == <<lock, pc>>

\* ------------------------------------------------------------------------
\* Generic helpers
\* ------------------------------------------------------------------------
Min(S) == CHOOSE x \in S : \A y \in S : x <= y

Range(s) == {s[i] : i \in 1..Len(s)}

RECURSIVE SortedSeq(_)
\* the members of a set of integers in ascending order
SortedSeq(S) ==
    IF S = {} THEN <<>> ELSE <<Min(S)>> \o SortedSeq(S \ {Min(S)})

RECURSIVE Flatten(_)
Flatten(ss) == IF ss = <<>> THEN <<>> ELSE Head(ss) \o Flatten(Tail(ss))

RECURSIVE LexPerms(_)
\* itertools.permutations over a sorted range: lexicographic order
LexPerms(S) ==
    IF S = {} THEN << <<>> >>
    ELSE LET xs == SortedSeq(S)
             rest(x) == LexPerms(S \ {x})
         IN Flatten([k \in 1..Len(xs) |->
                       [j \in 1..Len(rest(xs[k])) |->
                           <<xs[k]>> \o rest(xs[k])[j]]])

\* ------------------------------------------------------------------------
\* Resource (rocon_scheduler_requests.resources)
\* ------------------------------------------------------------------------
\* A request item: uris is the set of URIs its regular expression matches,
\* rapp the requested capability ("" for any), valid whether it compiles.
Item(us, r) == [uris |-> us, rapp |-> r, valid |-> TRUE]
BadItem == [uris |-> {}, rapp |-> "", valid |-> FALSE]

\* Resource.match
Match(u, res, item) ==
    /\ item.valid
    /\ u \in item.uris
    /\ (item.rapp = "" \/ item.rapp = res.rapp)

\* Resource.allocate: requires AVAILABLE
ResAllocate(res, owner) ==
    [res EXCEPT !.status = "ALLOCATED", !.owner = owner]

\* Resource.release(owner=None)
ResRelease(res, owner) ==
    IF owner # NoOwner /\ res.owner # owner THEN res
    ELSE [res EXCEPT !.owner = NoOwner,
                     !.status = IF @ = "ALLOCATED" THEN "AVAILABLE" ELSE @]

\* ------------------------------------------------------------------------
\* ResourcePool (resource_pool.py)
\* ------------------------------------------------------------------------
\* set iteration order of a match set
IterOrder(S) == SortedSeq(S)

\* _match_subset, generalised to a status set as match_list needs
MatchSubsetIn(p, item, criteria) ==
    {u \in DOMAIN p : p[u].status \in criteria /\ Match(u, p[u], item)}

\* (fault) _match_subset without the test of res.status
MatchSubsetAnyStatus(p, item) ==
    MatchSubsetIn(p, item, {"AVAILABLE", "ALLOCATED", "MISSING"})

_match_subset(p, item) == MatchSubsetIn(p, item, {"AVAILABLE"})

\* match_list(resources, criteria): [] if any item has no match
match_list(p, resources, criteria) ==
    IF \E i \in 1..Len(resources) :
            MatchSubsetIn(p, resources[i], criteria) = {}
    THEN <<>>
    ELSE [i \in 1..Len(resources) |->
            MatchSubsetIn(p, resources[i], criteria)]

_match_list(p, resources) ==
    IF \E i \in 1..Len(resources) : _match_subset(p, resources[i]) = {}
    THEN <<>>
    ELSE [i \in 1..Len(resources) |-> _match_subset(p, resources[i])]

RECURSIVE GreedyPermOrder(_, _, _, _)
\* (fault) the search loop storing the name at the position in the
\* permutation instead of at the item's index
GreedyPermOrder(perm, k, matches, acc) ==
    IF k > Len(perm) THEN acc
    ELSE LET i == perm[k]
             taken == {acc[j] : j \in 1..Len(acc)} \ {0}
             free == SelectSeq(IterOrder(matches[i]), LAMBDA n : n \notin taken)
         IN IF free = <<>> THEN <<>>
            ELSE GreedyPermOrder(perm, k + 1, matches,
                                 [acc EXCEPT ![k] = Head(free)])

RECURSIVE Greedy(_, _, _, _)
\* the search loop of _allocate_permutation: names chosen so far in acc
\* (item index -> name, 0 when not yet chosen); <<>> when some item fails
Greedy(perm, k, matches, acc) ==
    IF k > Len(perm) THEN acc
    ELSE LET i == perm[k]
             taken == {acc[j] : j \in 1..Len(acc)} \ {0}
             free == SelectSeq(IterOrder(matches[i]), LAMBDA n : n \notin taken)
         IN IF free = <<>> THEN <<>>
            ELSE Greedy(perm, k + 1, matches, [acc EXCEPT ![i] = Head(free)])

\* _allocate_permutation: the names in requested order, or <<>>
_allocate_permutation(perm, matches) ==
    Greedy(perm, 1, matches, [i \in 1..Len(matches) |-> 0])

RECURSIVE FirstPerm(_, _, _)
\* for perm in islice(permutations(range(n)), 1, None)
FirstPerm(perms, k, matches) ==
    IF k > Len(perms) THEN <<>>
    ELSE LET alloc == _allocate_permutation(perms[k], matches)
         IN IF alloc # <<>> THEN alloc ELSE FirstPerm(perms, k + 1, matches)

\* (fault) no search beyond the requested order
RetryNever(n_wanted, matches) == <<>>

\* the tail of allocate once the requested order has failed
Retry(n_wanted, matches) ==
    IF n_wanted > PermCutoff THEN <<>>
    ELSE FirstPerm(LexPerms(1..n_wanted), 2, matches)

\* (fault) every other ordering is searched whatever the number of items
AllocNamesSearchAll(p, resources) ==
    LET n_wanted == Len(resources)
        matches == _match_list(p, resources)
        match_union == UNION {matches[i] : i \in 1..Len(matches)}
        ident == [i \in 1..n_wanted |-> i]
        alloc == _allocate_permutation(ident, matches)
    IN IF matches = <<>> THEN <<>>
       ELSE IF Cardinality(match_union) < n_wanted THEN <<>>
       ELSE IF alloc # <<>> THEN alloc
       ELSE FirstPerm(LexPerms(1..n_wanted), 2, matches)

\* the names pool.allocate chooses, <<>> on failure
AllocNames(p, resources) ==
    LET n_wanted == Len(resources)
        matches == _match_list(p, resources)
        match_union == UNION {matches[i] : i \in 1..Len(matches)}
        ident == [i \in 1..n_wanted |-> i]
        alloc == _allocate_permutation(ident, matches)
    IN IF matches = <<>> THEN <<>>
       ELSE IF Cardinality(match_union) < n_wanted THEN <<>>
       ELSE IF alloc # <<>> THEN alloc
       ELSE Retry(n_wanted, matches)

\* (fault) the chosen resources are marked ALLOCATED without their owner
CommitAnonymous(p, names, req_id) ==
    [u \in DOMAIN p |->
        IF u \in Range(names) THEN ResAllocate(p[u], NoOwner) ELSE p[u]]

\* the pool after self.pool[name].allocate(req_id) for each chosen name
Commit(p, names, req_id) ==
    [u \in DOMAIN p |->
        IF u \in Range(names) THEN ResAllocate(p[u], req_id) ELSE p[u]]

\* (fault) the resource chosen for the first item stays allocated when the
\* search fails
allocatePartial(p, resources, req_id) ==
    LET names == AllocNames(p, resources)
        matches == _match_list(p, resources)
    IN [alloc |-> names,
        pool |-> IF names = <<>> /\ matches # <<>>
                 THEN Commit(p, <<Min(matches[1])>>, req_id)
                 ELSE Commit(p, names, req_id)]

\* pool.allocate(request): the allocation and the pool afterwards
allocate(p, resources, req_id) ==
    LET names == AllocNames(p, resources)
    IN [alloc |-> names, pool |-> Commit(p, names, req_id)]

\* pool.release_request / release_resources: release each named resource;
\* owner is NoOwner for release_resources
Release(p, names, owner) ==
    [u \in DOMAIN p |->
        IF u \in Range(names) THEN ResRelease(p[u], owner) ELSE p[u]]

\* pool.update(clients): reconcile membership with the conductor's roster
update(p, clients) ==
    LET keep == {u \in DOMAIN p :
                    u \in clients \/ p[u].owner # NoOwner}
    IN [u \in keep \cup clients |->
          IF u \notin DOMAIN p
          THEN [status |-> "AVAILABLE", owner |-> NoOwner, rapp |-> RappOf(u)]
          ELSE IF u \notin clients
          THEN [p[u] EXCEPT !.status = "MISSING"]
          ELSE IF p[u].status = "MISSING"
          THEN [p[u] EXCEPT !.status =
                    IF p[u].owner = NoOwner THEN "AVAILABLE" ELSE "ALLOCATED"]
          ELSE p[u]]

\* ------------------------------------------------------------------------
\* Request handle (rocon_scheduler_requests.transitions.ActiveRequest)
\* ------------------------------------------------------------------------
NoRequest ==
    [status |-> "NONE", reason |-> "NONE", priority |-> 0,
     resources |-> <<>>, allocations |-> <<>>, requester |-> 0]

\* states from which each handle operation is a valid transition; from any
\* other state it raises TransitionError
CanWait(status) == status \in {"NEW", "WAITING"}
CanGrant(status) == status \in {"NEW", "WAITING"}
CanCancel(status) == status \in {"NEW", "WAITING", "GRANTED"}
CanClose(status) == status \in {"NEW", "WAITING", "GRANTED", "CANCELING", "CLOSED"}

\* ------------------------------------------------------------------------
\* QueueElement and PriorityQueue (priority_queue.py)
\* ------------------------------------------------------------------------
NoElem == [priority |-> 0, sequence |-> 0, request |-> 0, requester_id |-> 0]

\* QueueElement(request, requester_id): the sort key negates the priority
QueueElement(r, rq, requester_id, seq) ==
    [priority |-> 0 - rq.priority, sequence |-> seq,
     request |-> r, requester_id |-> requester_id]

\* (fault) ordering by sequence number alone
ElemLessFIFO(a, b) == a.sequence < b.sequence

\* QueueElement.__lt__
ElemLess(a, b) ==
    \/ a.priority < b.priority
    \/ a.priority = b.priority /\ a.sequence < b.sequence

\* PriorityQueue(): heap entries and the tombstoned ones among them
EmptyQueue == [heap |-> {}, dead |-> {}]

PQLive(q) == q.heap \ q.dead

\* __len__
PQLen(q) == Cardinality(PQLive(q))

\* __contains__
PQContains(q, uuid) == \E e \in PQLive(q) : e.request = uuid

\* peek: the minimum live element
PQPeek(q) ==
    CHOOSE e \in PQLive(q) : \A f \in PQLive(q) : f = e \/ ElemLess(e, f)

\* (fault) pop returns the top of the heap, tombstoned or not
PQPopHeapTop(q) ==
    LET e == CHOOSE x \in q.heap : \A f \in q.heap : f = x \/ ElemLess(x, f)
        rest == q.heap \ {e}
    IN [elem |-> e, queue |-> [heap |-> rest, dead |-> q.dead \cap rest]]

\* pop: also discards the tombstones above the minimum live element
PQPop(q) ==
    LET e == PQPeek(q)
        rest == {f \in q.heap : ElemLess(e, f)}
    IN [elem |-> e, queue |-> [heap |-> rest, dead |-> q.dead \cap rest]]

\* (fault) add replaces the queued element of the same uuid
PQAddReplace(q, elem) ==
    [heap |-> (q.heap \ {e \in PQLive(q) : e.request = elem.request})
                 \cup {elem},
     dead |-> q.dead \ {elem}]

\* add(elem) without a priority: ignored when the uuid is already queued
PQAdd(q, elem) ==
    IF PQContains(q, elem.request) THEN q
    ELSE [heap |-> q.heap \cup {elem}, dead |-> q.dead \ {elem}]

\* remove(uuid): tombstone the live element of that uuid
PQRemove(q, uuid) ==
    [q EXCEPT !.dead = @ \cup {e \in PQLive(q) : e.request = uuid}]

\* (fault) the priority of the queued element is changed in place, keeping
\* its sequence number
PQAddPriorityInPlace(q, elem, priority) ==
    LET stored == CHOOSE e \in PQLive(q) : e.request = elem.request
    IN IF ~PQContains(q, elem.request) THEN PQAdd(q, elem)
       ELSE [q EXCEPT !.heap = (@ \ {stored})
                         \cup {[stored EXCEPT !.priority = 0 - priority]}]

\* add(elem, priority): when the uuid is queued with another priority the
\* old element is tombstoned and the new one, carrying the new priority and
\* its own (newer) sequence number, is inserted
PQAddPriority(q, elem, priority) ==
    LET stored == CHOOSE e \in PQLive(q) : e.request = elem.request
    IN IF ~PQContains(q, elem.request) THEN PQAdd(q, elem)
       ELSE IF stored.priority # 0 - priority
       THEN PQAdd(PQRemove(q, elem.request),
                  [elem EXCEPT !.priority = 0 - priority])
       ELSE q

\* ------------------------------------------------------------------------
\* SimpleSchedulerNode (scheduler_node.py)
\*
\* A handler runs under the Big Scheduler Lock, so each is one step.  Inside
\* a step the node's state is threaded through the operators below as a
\* record st; st.exc names an exception that has escaped ("none" otherwise)
\* and the fields after it only observe the run.  The requesters whose
\* request set the transport has dropped by the time of notify_requesters
\* (sch.notify raises KeyError for them) are an input of the step, missing.
\* ------------------------------------------------------------------------
Enter ==
    [pool |-> pool, changed |-> changed, reqs |-> reqs,
     ready_queue |-> ready_queue, blocked_queue |-> blocked_queue,
     sequence |-> sequence, notification_set |-> notification_set,
     exc |-> "none",
     head |-> NoElem,       \* element dispatch put back after an empty allocation
     peek |-> NoElem,       \* ready_queue.peek() right after that
     attempted |-> {},      \* elements dispatch called pool.allocate for
     granted |-> {},        \* elements whose grant succeeded
     failed |-> {},         \* elements whose grant raised TransitionError
     demoted |-> {},        \* elements reschedule moved to the blocked queue
     changers |-> {},       \* requesters with a request the node transitioned
     notified |-> <<>>,     \* requester ids passed to sch.notify, in call order
     unknown |-> {},        \* requesters shut down by notify_requesters
     notify_done |-> FALSE, \* notify_requesters returned
     published |-> 0]       \* snapshots sent to the resource_pool topic

\* a resource changed status or owner: ResourcePool.changed
Touch(st, p) ==
    [st EXCEPT !.pool = p, !.changed = @ \/ p # st.pool]

\* queue(request, requester_id)
queue(st, r, requester_id) ==
    IF ~CanWait(st.reqs[r].status) THEN st
    ELSE [st EXCEPT
            !.reqs[r].status = "WAITING",
            !.reqs[r].reason = "BUSY",
            !.ready_queue = PQAdd(@, QueueElement(r, st.reqs[r], requester_id,
                                                  st.sequence)),
            !.sequence = @ + 1,
            !.changers = @ \cup {requester_id},
            !.notification_set = @ \cup {requester_id}]

\* (fault) free leaves the request in the queue that holds it
freeKeepQueued(st, r, requester_id) ==
    LET rq == st.reqs[r]
        s1 == Touch(st, Release(st.pool, rq.allocations, r))
    IN [s1 EXCEPT !.reqs[r].status = "CLOSED",
                  !.changers = @ \cup {requester_id},
                  !.notification_set = @ \cup {requester_id}]

\* free(request, requester_id)
free(st, r, requester_id) ==
    LET rq == st.reqs[r]
        s1 == Touch(st, Release(st.pool, rq.allocations, r))
        s2 == [s1 EXCEPT !.reqs[r].status = "CLOSED",
                         !.changers = IF rq.status = "CLOSED" THEN @
                                      ELSE @ \cup {requester_id}]
        s3 == IF PQContains(s2.ready_queue, r)
              THEN [s2 EXCEPT !.ready_queue = PQRemove(@, r)]
              ELSE IF PQContains(s2.blocked_queue, r)
              THEN [s2 EXCEPT !.blocked_queue = PQRemove(@, r)]
              ELSE s2
    IN IF \E i \in 1..Len(rq.allocations) : rq.allocations[i] \notin DOMAIN st.pool
       THEN [st EXCEPT !.exc = "KeyError"]
       ELSE IF ~CanClose(rq.status)
       THEN [s1 EXCEPT !.exc = "TransitionError"]
       ELSE [s3 EXCEPT !.notification_set = @ \cup {requester_id}]

RECURSIVE FreeAll(_, _, _)
\* free each request of a sequence, stopping at an exception
FreeAll(st, rs, requester_id) ==
    IF rs = <<>> \/ st.exc # "none" THEN st
    ELSE FreeAll(free(st, Head(rs), requester_id), Tail(rs), requester_id)

\* shutdown_requester(requester_id): sweep both queues
shutdown_requester(st, requester_id) ==
    LET mine(q) == SortedSeq({e.request : e \in {f \in PQLive(q) :
                                    f.requester_id = requester_id}})
        s1 == FreeAll(st, mine(st.ready_queue), requester_id)
    IN FreeAll(s1, mine(s1.blocked_queue), requester_id)

RECURSIVE NotifyEach(_, _, _)
\* the loop of notify_requesters over a snapshot of the notification set
NotifyEach(st, ids, missing) ==
    IF ids = <<>> \/ st.exc # "none" THEN st
    ELSE LET id == Head(ids)
             s1 == [st EXCEPT !.notified = Append(@, id)]
         IN IF id \notin missing THEN NotifyEach(s1, Tail(ids), missing)
            ELSE NotifyEach(
                    [shutdown_requester(s1, id) EXCEPT !.unknown = @ \cup {id}],
                    Tail(ids), missing)

\* notify_requesters()
notify_requesters(st, missing) ==
    LET s1 == NotifyEach(st, SortedSeq(st.notification_set), missing)
    IN IF s1.exc # "none" THEN s1
       ELSE [s1 EXCEPT !.notification_set = {}, !.notify_done = TRUE]

\* reject_request(element, exception)
reject_request(st, elem) ==
    LET r == elem.request
    IN IF ~CanCancel(st.reqs[r].status)
       THEN [st EXCEPT !.exc = "TransitionError"]
       ELSE [st EXCEPT !.reqs[r].status = "CLOSED",
                       !.reqs[r].reason = "INVALID",
                       !.changers = @ \cup {elem.requester_id},
                       !.notification_set = @ \cup {elem.requester_id}]

\* pool.allocate raises InvalidRequestError for a malformed pattern
Invalid(resources) == \E i \in 1..Len(resources) : ~resources[i].valid

\* (fault) an unsatisfiable head is set aside in the blocked queue and the
\* loop goes on
UnsatisfiedSkip(st, elem) ==
    [st |-> [st EXCEPT !.blocked_queue = PQAdd(@, elem),
                       !.head = elem,
                       !.peek = elem],
     go |-> TRUE]

\* dispatch, top request cannot be satisfied: return it to the head of the
\* queue and stop looking
Unsatisfied(st, elem) ==
    [st |-> [st EXCEPT !.ready_queue = PQAdd(@, elem),
                       !.head = elem,
                       !.peek = PQPeek(PQAdd(st.ready_queue, elem))],
     go |-> FALSE]

\* (fault) the resources allocated for a failed grant are not released
GrantFailedKeep(st, elem, alloc) ==
    [st |-> [st EXCEPT !.failed = @ \cup {elem},
                       !.notification_set = @ \cup {elem.requester_id}],
     go |-> TRUE]

\* dispatch, grant raised TransitionError: return the allocated resources to
\* the pool; the loop goes on
GrantFailed(st, elem, alloc) ==
    [st |-> [Touch(st, Release(st.pool, alloc, NoOwner)) EXCEPT
                       !.failed = @ \cup {elem},
                       !.notification_set = @ \cup {elem.requester_id}],
     go |-> TRUE]

\* one iteration of the while loop of dispatch for the popped element;
\* go tells whether the loop continues
DispatchStep(st) ==
    LET popped == PQPop(st.ready_queue)
        elem == popped.elem
        r == elem.request
        s0 == [st EXCEPT !.ready_queue = popped.queue]
        res == allocate(s0.pool, s0.reqs[r].resources, r)
        s1 == [Touch(s0, res.pool) EXCEPT !.attempted = @ \cup {elem}]
    IN IF Invalid(s0.reqs[r].resources)
       THEN [st |-> reject_request([s0 EXCEPT !.attempted = @ \cup {elem}],
                                   elem),
             go |-> TRUE]
       ELSE IF res.alloc = <<>>
       THEN Unsatisfied(s1, elem)
       ELSE IF CanGrant(s1.reqs[r].status)
       THEN [st |-> [s1 EXCEPT !.reqs[r].status = "GRANTED",
                               !.reqs[r].reason = "NONE",
                               !.reqs[r].allocations = res.alloc,
                               !.granted = @ \cup {elem},
                               !.changers = @ \cup {elem.requester_id},
                               !.notification_set = @ \cup {elem.requester_id}],
             go |-> TRUE]
       ELSE GrantFailed(s1, elem, res.alloc)

RECURSIVE DispatchLoopSkip(_)
\* (fault) the loop looks past an unsatisfiable head and returns it to the
\* queue afterwards
DispatchLoopSkip(st) ==
    IF st.exc # "none" \/ PQLen(st.ready_queue) = 0 THEN st
    ELSE LET step == DispatchStep(st)
             aside == [step.st EXCEPT
                         !.ready_queue = PQPop(step.st.ready_queue).queue]
         IN IF step.go THEN DispatchLoopSkip(step.st)
            ELSE [DispatchLoopSkip(aside) EXCEPT
                     !.ready_queue = PQAdd(@, step.st.head)]

RECURSIVE DispatchLoop(_)
\* while len(self.ready_queue) > 0
DispatchLoop(st) ==
    IF st.exc # "none" \/ PQLen(st.ready_queue) = 0 THEN st
    ELSE LET step == DispatchStep(st)
         IN IF step.go THEN DispatchLoop(step.st) ELSE step.st

\* the tail of dispatch: publish known_resources() if anything changed
Publish(st) ==
    IF st.exc = "none" /\ st.changed
    THEN [st EXCEPT !.changed = FALSE, !.published = @ + 1]
    ELSE st

\* dispatch(): the loop, and once missing is known the rest
dispatch(st) == IF st.exc # "none" THEN st ELSE DispatchLoop(st)

DispatchTail(st, missing) ==
    IF st.exc # "none" THEN st ELSE Publish(notify_requesters(st, missing))

\* (fault) the blocked element is also left in the ready queue
DemoteKeep(st, elem) ==
    LET r == elem.request
    IN [st |-> [st EXCEPT !.reqs[r].status = "WAITING",
                          !.reqs[r].reason = "UNAVAILABLE",
                          !.ready_queue = PQAdd(@, elem),
                          !.blocked_queue = PQAdd(@, elem),
                          !.demoted = @ \cup {elem},
                          !.changers = @ \cup {elem.requester_id},
                          !.notification_set = @ \cup {elem.requester_id}],
        go |-> FALSE]

\* reschedule: move elem to blocked_queue
Demote(st, elem) ==
    LET r == elem.request
    IN IF ~CanWait(st.reqs[r].status)
       THEN [st |-> [st EXCEPT !.exc = "TransitionError"], go |-> FALSE]
       ELSE [st |-> [st EXCEPT !.reqs[r].status = "WAITING",
                               !.reqs[r].reason = "UNAVAILABLE",
                               !.blocked_queue = PQAdd(@, elem),
                               !.demoted = @ \cup {elem},
                               !.changers = @ \cup {elem.requester_id},
                               !.notification_set = @ \cup {elem.requester_id}],
             go |-> TRUE]

\* one iteration of the while loop of reschedule for the popped element
RescheduleStep(st) ==
    LET popped == PQPop(st.ready_queue)
        elem == popped.elem
        r == elem.request
        s0 == [st EXCEPT !.ready_queue = popped.queue]
    IN IF match_list(s0.pool, s0.reqs[r].resources,
                     {"AVAILABLE", "ALLOCATED"}) # <<>>
       THEN [st |-> [s0 EXCEPT !.ready_queue = PQAdd(@, elem)], go |-> FALSE]
       ELSE Demote(s0, elem)

RECURSIVE RescheduleLoop(_)
RescheduleLoop(st) ==
    IF st.exc # "none" \/ PQLen(st.ready_queue) = 0 THEN st
    ELSE LET step == RescheduleStep(st)
         IN IF step.go THEN RescheduleLoop(step.st) ELSE step.st

\* reschedule(event), up to notify_requesters
reschedule(st) == dispatch(RescheduleLoop(st))

RECURSIVE CallbackLoop(_, _, _)
\* for rq in rset.values()
CallbackLoop(st, rs, requester_id) ==
    IF rs = <<>> \/ st.exc # "none" THEN st
    ELSE LET r == Head(rs)
             s1 == IF st.reqs[r].status = "NEW" THEN queue(st, r, requester_id)
                   ELSE IF st.reqs[r].status = "CANCELING"
                   THEN free(st, r, requester_id)
                   ELSE st
         IN CallbackLoop(s1, Tail(rs), requester_id)

\* callback(rset), up to notify_requesters
callback(st, rs, requester_id) == dispatch(CallbackLoop(st, rs, requester_id))

\* (fault) the pool update is followed by the loop of reschedule
track_clientsRescan(st, clients) ==
    RescheduleLoop(Touch(st, update(st.pool, clients)))

\* track_clients(msg)
track_clients(st, clients) == Touch(st, update(st.pool, clients))

\* ------------------------------------------------------------------------
\* Steps
\* ------------------------------------------------------------------------
\* what a handler run leaves for observation
Observe(op, st) ==
    [op |-> op, exc |-> st.exc, head |-> st.head, peek |-> st.peek,
     attempted |-> st.attempted, granted |-> st.granted,
     failed |-> st.failed, demoted |-> st.demoted,
     changers |-> st.changers, notified |-> st.notified,
     unknown |-> st.unknown, notify_done |-> st.notify_done,
     published |-> st.published]

\* the node's state after a handler
Install(op, st) ==
    /\ pool' = st.pool
    /\ changed' = st.changed
    /\ reqs' = st.reqs
    /\ ready_queue' = st.ready_queue
    /\ blocked_queue' = st.blocked_queue
    /\ sequence' = st.sequence
    /\ notification_set' = st.notification_set
    /\ last' = Observe(op, st)
    /\ UNCHANGED probe

NoProbe == [pc |-> "idle", pre |-> <<>>, alloc |-> <<>>]

\* the pattern lists requesters send
RequestShapes ==
    { <<Item(URIs, "X")>>,
      <<Item({2}, "")>>,
      <<Item(URIs, ""), Item({1}, "")>>,
      <<>>,
      <<BadItem>> }

\* every order in which a set can be iterated
Orderings(S) ==
    {s \in [1..Cardinality(S) -> S] :
        \A i, j \in 1..Cardinality(S) : i # j => s[i] # s[j]}

Init ==
    /\ pool = <<>>
    /\ changed = FALSE
    /\ reqs = [r \in Requests |-> NoRequest]
    /\ ready_queue = EmptyQueue
    /\ blocked_queue = EmptyQueue
    /\ sequence = 0
    /\ notification_set = {}
    /\ last = Observe("init", Enter)
    /\ probe = NoProbe
    /\ lock = NoThread
    /\ pc = [t \in Threads |-> "idle"]

\* the requester that owns a request uuid
RequesterOf(r) == reqs[r].requester

\* a requester creates a request (uuids are numbered in order of creation);
\* the transport has not delivered it yet
NewRequest(r, requester_id, priority, resources) ==
    /\ reqs[r].status = "NONE"
    /\ \A r2 \in Requests : r2 < r => reqs[r2].status # "NONE"
    /\ reqs' = [reqs EXCEPT ![r] = [status |-> "NEW", reason |-> "NONE",
                                    priority |-> priority,
                                    resources |-> resources,
                                    allocations |-> <<>>,
                                    requester |-> requester_id]]
    /\ last' = Observe("requester", Enter)
    /\ UNCHANGED <<pool, changed, ready_queue, blocked_queue, sequence,
                   notification_set, probe, threads>>

\* a requester cancels one of its requests, concurrently with the node
CancelRequest(r) ==
    /\ reqs[r].status \in {"NEW", "WAITING", "GRANTED"}
    /\ reqs' = [reqs EXCEPT ![r].status = "CANCELING"]
    /\ last' = Observe("requester", Enter)
    /\ UNCHANGED <<pool, changed, ready_queue, blocked_queue, sequence,
                   notification_set, probe, threads>>

\* the transport delivers the request set of a requester
Callback(requester_id) ==
    \E rs \in Orderings({r \in Requests :
                            /\ RequesterOf(r) = requester_id
                            /\ reqs[r].status \in {"NEW", "CANCELING"}}) :
        LET st == callback(Enter, rs, requester_id)
        IN \E missing \in SUBSET (st.notification_set \ {requester_id}) :
              /\ Install("callback", DispatchTail(st, missing))
              /\ UNCHANGED threads

\* the timer fires
Reschedule ==
    LET st == reschedule(Enter)
    IN \E missing \in SUBSET st.notification_set :
          /\ Install("reschedule", DispatchTail(st, missing))
          /\ UNCHANGED threads

\* the conductor publishes the clients it knows
TrackClients(clients) ==
    /\ Install("track_clients", track_clients(Enter, clients))
    /\ UNCHANGED threads

Next ==
    \/ \E r \in Requests, requester_id \in Requesters,
          priority \in Priorities, resources \in RequestShapes :
             NewRequest(r, requester_id, priority, resources)
    \/ \E r \in Requests : CancelRequest(r)
    \/ \E requester_id \in Requesters : Callback(requester_id)
    \/ Reschedule
    \/ \E clients \in SUBSET URIs : TrackClients(clients)

Spec == Init /\ [][Next]_vars

\* ------------------------------------------------------------------------
\* The allocator alone: one call of pool.allocate on every bounded pool and
\* pattern list
\* ------------------------------------------------------------------------
AllocPools ==
    {[u \in 1..AllocURIs |->
        [status |-> st[u],
         owner |-> IF st[u] = "AVAILABLE" THEN NoOwner ELSE 2,
         rapp |-> RappOf(u)]] :
     st \in [1..AllocURIs -> {"AVAILABLE", "ALLOCATED"}]}

AllocItems == {Item(us, "") : us \in SUBSET (1..AllocURIs)}

AllocShapes == UNION {[1..n -> AllocItems] : n \in 0..MaxItems}

InitAlloc ==
    /\ pool \in AllocPools
    /\ changed = FALSE
    /\ \E resources \in AllocShapes :
          reqs = [r \in Requests |->
                    IF r = 1
                    THEN [status |-> "WAITING", reason |-> "BUSY",
                          priority |-> 0, resources |-> resources,
                          allocations |-> <<>>, requester |-> 1]
                    ELSE NoRequest]
    /\ ready_queue = EmptyQueue
    /\ blocked_queue = EmptyQueue
    /\ sequence = 0
    /\ notification_set = {}
    /\ last = Observe("init", Enter)
    /\ probe = [pc |-> "call", pre |-> <<>>, alloc |-> <<>>]
    /\ lock = NoThread
    /\ pc = [t \in Threads |-> "idle"]

\* pool.allocate(request) for request 1
ProbeAllocate ==
    /\ probe.pc = "call"
    /\ LET res == allocate(pool, reqs[1].resources, 1)
       IN /\ pool' = res.pool
          /\ probe' = [pc |-> "done", pre |-> pool, alloc |-> res.alloc]
    /\ UNCHANGED <<changed, reqs, ready_queue, blocked_queue, sequence,
                   notification_set, last, threads>>

NextAlloc == ProbeAllocate

SpecAlloc == InitAlloc /\ [][NextAlloc]_vars

\* ------------------------------------------------------------------------
\* The allocator on long requests: one call of pool.allocate for every
\* bounded pool and every pattern list of more than PermCutoff items
\* ------------------------------------------------------------------------
BigPools ==
    {[u \in 1..BigURIs |->
        [status |-> st[u],
         owner |-> IF st[u] = "AVAILABLE" THEN NoOwner ELSE 2,
         rapp |-> RappOf(u)]] :
     st \in [1..BigURIs -> {"AVAILABLE", "ALLOCATED"}]}

BigItemSet == {Item(us, "") : us \in SUBSET (1..BigURIs)}

BigShapes == UNION {[1..n -> BigItemSet] : n \in (PermCutoff + 1)..BigItems}

InitBig ==
    /\ pool \in BigPools
    /\ changed = FALSE
    /\ \E resources \in BigShapes :
          reqs = [r \in Requests |->
                    IF r = 1
                    THEN [status |-> "WAITING", reason |-> "BUSY",
                          priority |-> 0, resources |-> resources,
                          allocations |-> <<>>, requester |-> 1]
                    ELSE NoRequest]
    /\ ready_queue = EmptyQueue
    /\ blocked_queue = EmptyQueue
    /\ sequence = 0
    /\ notification_set = {}
    /\ last = Observe("init", Enter)
    /\ probe = [pc |-> "call", pre |-> <<>>, alloc |-> <<>>]
    /\ lock = NoThread
    /\ pc = [t \in Threads |-> "idle"]

SpecBig == InitBig /\ [][NextAlloc]_vars

\* ------------------------------------------------------------------------
\* The priority queue alone: every bounded sequence of add, remove and pop
\* on one queue (held in ready_queue); probe observes the last operation
\* ------------------------------------------------------------------------
PQProbe(op, elem, out) ==
    [pc |-> op, pre |-> ready_queue, alloc |-> <<>>, elem |-> elem,
     out |-> out]

InitPQ ==
    /\ pool = <<>>
    /\ changed = FALSE
    /\ reqs = [r \in Requests |-> NoRequest]
    /\ ready_queue = EmptyQueue
    /\ blocked_queue = EmptyQueue
    /\ sequence = 0
    /\ notification_set = {}
    /\ last = Observe("init", Enter)
    /\ probe = PQProbe("new", NoElem, NoElem)
    /\ lock = NoThread
    /\ pc = [t \in Threads |-> "idle"]

\* QueueElement(request, requester_id) for a request of the given priority
NewElement(r, priority) ==
    QueueElement(r, [NoRequest EXCEPT !.priority = priority], 1, sequence)

\* pq.add(QueueElement(request, requester_id))
StepAdd(r, priority) ==
    /\ sequence < MaxSeq
    /\ ready_queue' = PQAdd(ready_queue, NewElement(r, priority))
    /\ sequence' = sequence + 1
    /\ probe' = PQProbe("add", NewElement(r, priority), NoElem)
    /\ UNCHANGED <<pool, changed, reqs, blocked_queue, notification_set, last,
                   threads>>

\* pq.add(QueueElement(request, requester_id), priority=new_priority)
StepAddPriority(r, priority, new_priority) ==
    /\ sequence < MaxSeq
    /\ ready_queue' = PQAddPriority(ready_queue, NewElement(r, priority),
                                    new_priority)
    /\ sequence' = sequence + 1
    /\ probe' = PQProbe("add_priority",
                        [NewElement(r, priority) EXCEPT
                            !.priority = 0 - new_priority],
                        NoElem)
    /\ UNCHANGED <<pool, changed, reqs, blocked_queue, notification_set, last,
                   threads>>

\* pq.remove(uuid)
StepRemove(uuid) ==
    /\ ready_queue' = PQRemove(ready_queue, uuid)
    /\ probe' = PQProbe("remove", [NoElem EXCEPT !.request = uuid], NoElem)
    /\ UNCHANGED <<pool, changed, reqs, blocked_queue, sequence,
                   notification_set, last, threads>>

\* pq.pop(); raises IndexError on a queue without live elements
StepPop ==
    /\ IF PQLen(ready_queue) = 0
       THEN /\ probe' = PQProbe("empty", NoElem, NoElem)
            /\ UNCHANGED ready_queue
       ELSE /\ ready_queue' = PQPop(ready_queue).queue
            /\ probe' = PQProbe("pop", NoElem, PQPop(ready_queue).elem)
    /\ UNCHANGED <<pool, changed, reqs, blocked_queue, sequence,
                   notification_set, last, threads>>

NextPQ ==
    \/ \E r \in Requests, priority \in Priorities : StepAdd(r, priority)
    \/ \E r \in Requests, priority, new_priority \in Priorities :
          StepAddPriority(r, priority, new_priority)
    \/ \E uuid \in Requests : StepRemove(uuid)
    \/ StepPop

SpecPQ == InitPQ /\ [][NextPQ]_vars

\* ------------------------------------------------------------------------
\* The three threads and the Big Scheduler Lock: each handler is split at
\* the calls it makes (its own loop, the loop of dispatch, notification and
\* publication), so that the state it leaves part-way is in the variables
\* ------------------------------------------------------------------------
\* the pattern lists requesters send in the lock check
LockShapes == {<<Item({2}, "")>>, <<Item(URIs, "X")>>}

\* an event arrives for a thread: a request set is delivered, the conductor
\* publishes its clients, the timer fires
Arrive(t) ==
    /\ pc[t] = "idle"
    /\ pc' = [pc EXCEPT ![t] = "waiting"]
    /\ UNCHANGED <<pool, changed, reqs, ready_queue, blocked_queue, sequence,
                   notification_set, last, probe, lock>>

\* (fault) the handler body is entered without taking the lock
EnterUnlocked(t) == TRUE

\* with self.sch.lock (callback: the transport calls it holding the lock):
\* the thread blocks while another thread holds the lock
CanEnter(t) == lock = NoThread

Acquire(t) ==
    /\ pc[t] = "waiting"
    /\ CanEnter(t)
    /\ lock' = t
    /\ pc' = [pc EXCEPT ![t] = "entered"]
    /\ UNCHANGED <<pool, changed, reqs, ready_queue, blocked_queue, sequence,
                   notification_set, last, probe>>

\* thread t goes on to the next part, or leaves the handler (by return or
\* by an escaped exception) and so the with block, releasing the lock
Goto(t, st, next) ==
    LET where == IF st.exc = "none" THEN next ELSE "idle"
    IN /\ pc' = [pc EXCEPT ![t] = where]
       /\ lock' = IF where = "idle" /\ lock = t THEN NoThread ELSE lock

\* callback: the loop over the delivered request set
CallbackBody(requester_id) ==
    /\ pc["callback"] = "entered"
    /\ \E rs \in Orderings({r \in Requests :
                               /\ RequesterOf(r) = requester_id
                               /\ reqs[r].status \in {"NEW", "CANCELING"}}) :
          LET st == CallbackLoop(Enter, rs, requester_id)
          IN Install("callback", st) /\ Goto("callback", st, "dispatch")

\* reschedule: the loop that moves unsatisfiable heads to the blocked queue
RescheduleBody ==
    /\ pc["reschedule"] = "entered"
    /\ LET st == RescheduleLoop(Enter)
       IN Install("reschedule", st) /\ Goto("reschedule", st, "dispatch")

\* dispatch, called by callback or reschedule: the while loop
DispatchBody(t) ==
    /\ pc[t] = "dispatch"
    /\ LET st == DispatchLoop(Enter)
       IN Install(t, st) /\ Goto(t, st, "notify")

\* dispatch: notify_requesters and the publication; the handler returns
NotifyBody(t) ==
    /\ pc[t] = "notify"
    /\ \E missing \in SUBSET notification_set :
          LET st == DispatchTail(Enter, missing)
          IN Install(t, st) /\ Goto(t, st, "idle")

\* track_clients: pool.update
TrackBody(clients) ==
    /\ pc["track_clients"] = "entered"
    /\ LET st == track_clients(Enter, clients)
       IN Install("track_clients", st) /\ Goto("track_clients", st, "idle")

NextLock ==
    \/ \E r \in Requests, resources \in LockShapes :
          NewRequest(r, 1, 0, resources)
    \/ \E r \in Requests : CancelRequest(r)
    \/ \E t \in Threads : Arrive(t)
    \/ \E t \in Threads : Acquire(t)
    \/ CallbackBody(1)
    \/ RescheduleBody
    \/ \E t \in {"callback", "reschedule"} : DispatchBody(t)
    \/ \E t \in {"callback", "reschedule"} : NotifyBody(t)
    \/ \E clients \in SUBSET URIs : TrackBody(clients)

SpecLock == Init /\ [][NextLock]_vars

\* ------------------------------------------------------------------------
\* The loops of reschedule and dispatch, one iteration per step; probe counts
\* the iterations of each loop and holds the length of the ready queue when
\* the loop began
\* ------------------------------------------------------------------------
\* the pattern lists requesters send in the loop check
LoopShapes == {<<Item({2}, "")>>, <<BadItem>>}

\* a loop about to begin on ready queue q
LoopStart(q) == [iters |-> 0, len |-> PQLen(q)]

NoLoop == [pc |-> "loop", resched |-> LoopStart(EmptyQueue),
           disp |-> LoopStart(EmptyQueue)]

InitLoop ==
    /\ pool = <<>>
    /\ changed = FALSE
    /\ reqs = [r \in Requests |-> NoRequest]
    /\ ready_queue = EmptyQueue
    /\ blocked_queue = EmptyQueue
    /\ sequence = 0
    /\ notification_set = {}
    /\ last = Observe("init", Enter)
    /\ probe = NoLoop
    /\ lock = NoThread
    /\ pc = [t \in Threads |-> "idle"]

\* the node's state after a part of a handler
InstallPart(op, st) ==
    /\ pool' = st.pool
    /\ changed' = st.changed
    /\ reqs' = st.reqs
    /\ ready_queue' = st.ready_queue
    /\ blocked_queue' = st.blocked_queue
    /\ sequence' = st.sequence
    /\ notification_set' = st.notification_set
    /\ last' = Observe(op, st)

\* a thread takes the lock; the loop of reschedule begins
LoopAcquire(t) ==
    /\ pc[t] = "waiting"
    /\ CanEnter(t)
    /\ lock' = t
    /\ pc' = [pc EXCEPT ![t] = "entered"]
    /\ probe' = [NoLoop EXCEPT !.resched = LoopStart(ready_queue)]
    /\ UNCHANGED <<pool, changed, reqs, ready_queue, blocked_queue, sequence,
                   notification_set, last>>

\* callback: the loop over the delivered request set; dispatch is called
LoopCallback(requester_id) ==
    /\ pc["callback"] = "entered"
    /\ \E rs \in Orderings({r \in Requests :
                               /\ RequesterOf(r) = requester_id
                               /\ reqs[r].status \in {"NEW", "CANCELING"}}) :
          LET st == CallbackLoop(Enter, rs, requester_id)
          IN /\ InstallPart("callback", st)
             /\ probe' = [probe EXCEPT !.disp = LoopStart(st.ready_queue)]
             /\ Goto("callback", st, "dispatch")

\* reschedule: the test of the while loop and, when the ready queue is not
\* empty, one iteration; after the loop dispatch is called
RescheduleIter ==
    /\ pc["reschedule"] = "entered"
    /\ IF PQLen(ready_queue) = 0
       THEN /\ pc' = [pc EXCEPT !["reschedule"] = "dispatch"]
            /\ probe' = [probe EXCEPT !.disp = LoopStart(ready_queue)]
            /\ UNCHANGED <<pool, changed, reqs, ready_queue, blocked_queue,
                           sequence, notification_set, last, lock>>
       ELSE LET step == RescheduleStep(Enter)
            IN /\ InstallPart("reschedule", step.st)
               /\ probe' = [probe EXCEPT
                               !.resched.iters = @ + 1,
                               !.disp = LoopStart(step.st.ready_queue)]
               /\ Goto("reschedule", step.st,
                       IF step.go THEN "entered" ELSE "dispatch")

\* dispatch: the test of the while loop and, when the ready queue is not
\* empty, one iteration; after the loop notify_requesters is called
DispatchIter(t) ==
    /\ pc[t] = "dispatch"
    /\ IF PQLen(ready_queue) = 0
       THEN /\ pc' = [pc EXCEPT ![t] = "notify"]
            /\ UNCHANGED <<pool, changed, reqs, ready_queue, blocked_queue,
                           sequence, notification_set, last, probe, lock>>
       ELSE LET step == DispatchStep(Enter)
            IN /\ InstallPart(t, step.st)
               /\ probe' = [probe EXCEPT !.disp.iters = @ + 1]
               /\ Goto(t, step.st, IF step.go THEN "dispatch" ELSE "notify")

\* dispatch: notify_requesters and the publication; the handler returns
LoopNotify(t) ==
    /\ pc[t] = "notify"
    /\ \E missing \in SUBSET notification_set :
          LET st == DispatchTail(Enter, missing)
          IN InstallPart(t, st) /\ Goto(t, st, "idle")
    /\ UNCHANGED probe

\* track_clients: pool.update
LoopTrack(clients) ==
    /\ pc["track_clients"] = "entered"
    /\ LET st == track_clients(Enter, clients)
       IN InstallPart("track_clients", st)
          /\ Goto("track_clients", st, "idle")
    /\ UNCHANGED probe

\* the steps of thread t inside its handler
Run(t) ==
    \/ t = "callback" /\ LoopCallback(1)
    \/ t = "reschedule" /\ RescheduleIter
    \/ t \in {"callback", "reschedule"} /\ DispatchIter(t)
    \/ t \in {"callback", "reschedule"} /\ LoopNotify(t)
    \/ t = "track_clients" /\ \E clients \in SUBSET URIs : LoopTrack(clients)

NextLoop ==
    \/ \E r \in Requests, resources \in LoopShapes :
          NewRequest(r, 1, 0, resources)
    \/ \E r \in Requests : CancelRequest(r)
    \/ \E t \in Threads : Arrive(t)
    \/ \E t \in Threads : LoopAcquire(t)
    \/ \E t \in Threads : Run(t)

SpecLoop == InitLoop /\ [][NextLoop]_vars

\* thread t is inside its handler, where its next step is always possible
Running(t) == pc[t] \in {"entered", "dispatch", "notify"}

\* a step of thread t inside its handler: it moves on, or counts an iteration
Progress(t) == Running(t) /\ (pc'[t] # pc[t] \/ probe' # probe)

\* a thread inside its handler holds the lock and is scheduled until it
\* leaves the handler: weak fairness of its steps, WF_vars(Run(t)), with the
\* enabling condition written out as Running(t)
SpecLoopFair ==
    SpecLoop /\ \A t \in Threads :
                    []<>(~Running(t)) \/ []<><<Progress(t)>>_vars

\* ------------------------------------------------------------------------
\* Properties
\* ------------------------------------------------------------------------
Granted == {r \in Requests : reqs[r].status = "GRANTED"}

NoDuplicates(s) == \A i, j \in 1..Len(s) : i # j => s[i] # s[j]

\* C1: no resource URI belongs to the allocations of two different granted
\* requests, no URI appears twice inside one allocation, and every URI of a
\* granted allocation is held in the pool by that request alone.
C1_ExclusiveAllocation ==
    /\ \A r1, r2 \in Granted :
          r1 # r2 => Range(reqs[r1].allocations)
                        \cap Range(reqs[r2].allocations) = {}
    /\ \A r \in Granted :
          /\ NoDuplicates(reqs[r].allocations)
          /\ \A u \in Range(reqs[r].allocations) :
                u \in DOMAIN pool /\ pool[u].owner = r

\* two requests are granted at once, each holding a resource
C1_Witness ==
    \E r1, r2 \in Granted :
        /\ r1 # r2
        /\ reqs[r1].allocations # <<>>
        /\ reqs[r2].allocations # <<>>

\* C2: each request uuid is in at most one of the ready and the blocked
\* queue.
C2_OneQueue ==
    \A r \in Requests :
        ~(PQContains(ready_queue, r) /\ PQContains(blocked_queue, r))

\* one request waits in the ready queue while another is blocked
C2_Witness ==
    \E r1, r2 \in Requests :
        PQContains(ready_queue, r1) /\ PQContains(blocked_queue, r2)

\* C3: when pool.allocate returns the empty list for the popped head,
\* dispatch puts that element back unchanged so that it is the head again,
\* and neither attempts an allocation nor makes a grant for any element
\* behind it.
C3_HeadOfLine ==
    last.head # NoElem =>
        /\ last.peek = last.head
        /\ \A e \in last.attempted : e = last.head \/ ElemLess(e, last.head)
        /\ \A e \in last.granted : ElemLess(e, last.head)
        /\ \A e \in PQLive(ready_queue) :
              ElemLess(last.head, e) =>
                  /\ e \notin last.attempted
                  /\ reqs[e.request].status # "GRANTED"

\* the head is blocked while the pool could satisfy an element behind it
C3_Witness ==
    /\ last.head # NoElem
    /\ \E e \in PQLive(ready_queue) :
          /\ ElemLess(last.head, e)
          /\ reqs[e.request].status = "WAITING"
          /\ AllocNames(pool, reqs[e.request].resources) # <<>>

\* C4: a request is never granted while a request that sorts before it
\* (higher priority, or same priority and queued earlier) is still in the
\* ready queue.
C4_NoOvertaking ==
    \A g \in last.granted : \A e \in PQLive(ready_queue) : ElemLess(g, e)

\* a request is granted after an older one was moved to the blocked queue
C4_Witness ==
    \E g \in last.granted : \E b \in PQLive(blocked_queue) : ElemLess(b, g)

\* a system of distinct representatives over the AVAILABLE match sets
SDRExists(p, resources) ==
    \E f \in [1..Len(resources) -> DOMAIN p] :
        /\ \A i \in 1..Len(resources) : f[i] \in _match_subset(p, resources[i])
        /\ \A i, j \in 1..Len(resources) : i # j => f[i] # f[j]

ProbeItems == reqs[1].resources

\* C5 as stated: for n <= 3 items pool.allocate returns a non-empty
\* allocation iff a system of distinct representatives exists.
C5_Original ==
    (probe.pc = "done" /\ Len(ProbeItems) <= PermCutoff) =>
        (probe.alloc # <<>> <=> SDRExists(probe.pre, ProbeItems))

\* C5: for 1 <= n <= 3 items pool.allocate returns a non-empty allocation
\* iff a system of distinct representatives exists over the AVAILABLE match
\* sets.
C5_AllocateIffSDR ==
    (probe.pc = "done" /\ Len(ProbeItems) \in 1..PermCutoff) =>
        (probe.alloc # <<>> <=> SDRExists(probe.pre, ProbeItems))

IdentityFails(p, resources) ==
    /\ _match_list(p, resources) # <<>>
    /\ _allocate_permutation([i \in 1..Len(resources) |-> i],
                             _match_list(p, resources)) = <<>>

\* three items are allocated although greedy in the requested order fails
C5_Witness ==
    /\ probe.pc = "done"
    /\ Len(ProbeItems) = PermCutoff
    /\ probe.alloc # <<>>
    /\ IdentityFails(probe.pre, ProbeItems)

\* C6: when pool.allocate returns the empty list the pool is as it was
\* before the call.
C6_FailureLeavesPool ==
    (probe.pc = "done" /\ probe.alloc = <<>>) => pool = probe.pre

\* every item has a match and the union is large enough, yet all
\* permutations fail
C6_Witness ==
    /\ probe.pc = "done"
    /\ probe.alloc = <<>>
    /\ Len(ProbeItems) > 1
    /\ IdentityFails(probe.pre, ProbeItems)
    /\ Cardinality(UNION {_match_subset(probe.pre, ProbeItems[i]) :
                            i \in 1..Len(ProbeItems)}) >= Len(ProbeItems)

\* C7: a successful pool.allocate returns one URI per item in the request's
\* item order: the i-th URI matches the i-th pattern, was AVAILABLE before
\* the call and is ALLOCATED to the request afterwards; nothing else changes.
C7_OrderPreserving ==
    (probe.pc = "done" /\ probe.alloc # <<>>) =>
        /\ Len(probe.alloc) = Len(ProbeItems)
        /\ NoDuplicates(probe.alloc)
        /\ \A i \in 1..Len(ProbeItems) :
              LET u == probe.alloc[i]
              IN /\ u \in DOMAIN probe.pre
                 /\ Match(u, probe.pre[u], ProbeItems[i])
                 /\ probe.pre[u].status = "AVAILABLE"
                 /\ pool[u].status = "ALLOCATED"
                 /\ pool[u].owner = 1
        /\ \A u \in DOMAIN pool :
              u \notin Range(probe.alloc) => pool[u] = probe.pre[u]

\* the allocation was found under a permutation other than the identity
C7_Witness ==
    /\ probe.pc = "done"
    /\ probe.alloc # <<>>
    /\ IdentityFails(probe.pre, ProbeItems)

\* C8: no TransitionError raised by a request-handle operation escapes the
\* callback, dispatch or reschedule operation.
C8_Absorbed == last.exc # "TransitionError"

\* C9: after notify_requesters has shut a requester down, neither queue
\* holds an element of that requester and no pool resource is ALLOCATED to
\* one of its requests.
C9_ShutdownFreesAll ==
    last.notify_done =>
        \A id \in last.unknown :
            /\ \A e \in PQLive(ready_queue) \cup PQLive(blocked_queue) :
                  e.requester_id # id
            /\ \A u \in DOMAIN pool :
                  pool[u].status = "ALLOCATED" =>
                      RequesterOf(pool[u].owner) # id

\* C10: in a dispatch cycle notify is called once for each requester that
\* had a request change state in that cycle, and for no other requester.
C10_NotifyCount ==
    last.notify_done =>
        /\ Len(last.notified) = Cardinality(last.changers)
        /\ Range(last.notified) = last.changers

\* a dispatch or reschedule cycle: a run of callback or reschedule
Cycle == last'.op \in {"callback", "reschedule"}

\* C11: whenever pool.changed is set, the next dispatch or reschedule cycle
\* publishes exactly one known_resources snapshot and leaves the flag
\* cleared; a cycle that finds the flag clear and changes nothing in the
\* pool publishes nothing.
C11_PublishOnce ==
    [][Cycle =>
          /\ changed' = FALSE
          /\ last'.published <= 1
          /\ changed => last'.published = 1
          /\ (~changed /\ last'.attempted = {} /\ last'.changers = {})
                => last'.published = 0]_vars

\* a blocked request that the pool could serve once held resources return
Retryable(e) ==
    /\ reqs[e.request].status = "WAITING"
    /\ match_list(pool, reqs[e.request].resources,
                  {"AVAILABLE", "ALLOCATED"}) # <<>>

\* C12: once the pool has been extended so that every pattern of a blocked
\* request matches an AVAILABLE or ALLOCATED resource, a periodic reschedule
\* tick takes the request out of the blocked queue (back to the ready queue,
\* where dispatch can grant it).
C12_BlockedRetried ==
    [][(last'.op = "reschedule" /\ last'.exc = "none") =>
          \A e \in PQLive(blocked_queue) :
              Retryable(e) => ~PQContains(blocked_queue', e.request)]_vars

\* the request priority a queue element was built from
ReqPriority(e) == 0 - e.priority

\* lexicographic order on (negated request priority, sequence number)
PopsBefore(e, f) ==
    \/ ReqPriority(e) > ReqPriority(f)
    \/ ReqPriority(e) = ReqPriority(f) /\ e.sequence < f.sequence

\* C13: after any sequence of add, remove and pop, a pop returns the live
\* element that is first in the order on (negated request priority,
\* sequence number) - larger request priority first, earlier construction
\* first among equals - which is the element peek returned, and leaves the
\* other live elements in the queue.
C13_PopOrder ==
    probe.pc = "pop" =>
        /\ probe.out \in PQLive(probe.pre)
        /\ \A f \in PQLive(probe.pre) \ {probe.out} : PopsBefore(probe.out, f)
        /\ probe.out = PQPeek(probe.pre)
        /\ PQLive(ready_queue) = PQLive(probe.pre) \ {probe.out}

\* a pop passes over a removed element and returns a higher-priority element
\* constructed later than a live one
C13_Witness ==
    /\ probe.pc = "pop"
    /\ \E d \in probe.pre.dead : PopsBefore(d, probe.out)
    /\ \E f \in PQLive(probe.pre) :
          /\ f.sequence < probe.out.sequence
          /\ ReqPriority(f) < ReqPriority(probe.out)

\* the live element of a uuid
Stored(q, uuid) == CHOOSE e \in PQLive(q) : e.request = uuid

\* the last operation was an add for a uuid already queued that supplied no
\* priority, or the priority the queued element has
SamePriorityAdd ==
    /\ probe.pc \in {"add", "add_priority"}
    /\ PQContains(probe.pre, probe.elem.request)
    /\ \/ probe.pc = "add"
       \/ Stored(probe.pre, probe.elem.request).priority = probe.elem.priority

\* C14: add for a uuid already in the queue, with no priority or with the
\* stored priority, changes nothing: the length is the same, the element
\* added first stays with its sequence number, and peek is the same.
C14_AddIdempotent ==
    SamePriorityAdd =>
        /\ PQLen(ready_queue) = PQLen(probe.pre)
        /\ PQLive(ready_queue) = PQLive(probe.pre)
        /\ Stored(ready_queue, probe.elem.request)
              = Stored(probe.pre, probe.elem.request)
        /\ PQPeek(ready_queue) = PQPeek(probe.pre)

\* a second element is built for a queued uuid from a request of another
\* priority and added without a priority, while another uuid is queued too
C14_Witness ==
    /\ SamePriorityAdd
    /\ probe.pc = "add"
    /\ PQLen(probe.pre) = 2
    /\ Stored(probe.pre, probe.elem.request).priority # probe.elem.priority

\* the last operation was an add for a queued uuid that supplied a priority
\* other than the stored one
PriorityUpdate ==
    /\ probe.pc = "add_priority"
    /\ PQContains(probe.pre, probe.elem.request)
    /\ Stored(probe.pre, probe.elem.request).priority # probe.elem.priority

\* C15: add with a priority p other than the stored one replaces the queued
\* element of that uuid: the length is the same, one live element of the
\* uuid remains, it has priority p and a sequence number larger than every
\* earlier one, so it sorts behind the elements of priority p and ahead of
\* all lower priorities; the old entry is not live and no pop returns a
\* tombstoned entry.
C15_PriorityUpdate ==
    /\ PriorityUpdate =>
          LET uuid == probe.elem.request
              old == Stored(probe.pre, uuid)
              new == Stored(ready_queue, uuid)
          IN /\ PQLen(ready_queue) = PQLen(probe.pre)
             /\ Cardinality({e \in PQLive(ready_queue) : e.request = uuid}) = 1
             /\ new.priority = probe.elem.priority
             /\ \A e \in probe.pre.heap : e.sequence < new.sequence
             /\ old \notin PQLive(ready_queue)
             /\ \A f \in PQLive(ready_queue) \ {new} :
                   /\ ReqPriority(f) = ReqPriority(new) => PopsBefore(f, new)
                   /\ ReqPriority(f) < ReqPriority(new) => PopsBefore(new, f)
    /\ probe.pc = "pop" => probe.out \notin probe.pre.dead

\* the priority of a queued uuid is raised to that of another queued element
C15_Witness ==
    /\ PriorityUpdate
    /\ \E f \in PQLive(ready_queue) :
          /\ f.request # probe.elem.request
          /\ f.priority = probe.elem.priority
          /\ f.sequence > Stored(probe.pre, probe.elem.request).sequence

\* C16: remove(uuid) of a queued element lowers len by one at once and the
\* element is no longer live, so neither peek nor pop returns it; remove of
\* an absent uuid changes nothing; pop fails with Empty exactly when no live
\* element is left, and never returns a tombstoned entry.
C16_Remove ==
    /\ (probe.pc = "remove" /\ PQContains(probe.pre, probe.elem.request)) =>
          LET gone == Stored(probe.pre, probe.elem.request)
          IN /\ PQLen(ready_queue) = PQLen(probe.pre) - 1
             /\ ~PQContains(ready_queue, probe.elem.request)
             /\ PQLive(ready_queue) = PQLive(probe.pre) \ {gone}
             /\ PQLen(ready_queue) > 0 =>
                   /\ PQPeek(ready_queue) # gone
                   /\ PQPop(ready_queue).elem # gone
    /\ (probe.pc = "remove" /\ ~PQContains(probe.pre, probe.elem.request)) =>
          ready_queue = probe.pre
    /\ probe.pc = "empty" => PQLive(probe.pre) = {} /\ ready_queue = probe.pre
    /\ probe.pc = "pop" =>
          /\ PQLive(probe.pre) # {}
          /\ probe.out \in probe.pre.heap \ probe.pre.dead

\* pop fails with Empty on a queue whose elements have all been removed
C16_Witness ==
    /\ probe.pc = "empty"
    /\ probe.pre.dead # {}

\* the threads inside a handler
Inside == {t \in Threads : pc[t] \notin {"idle", "waiting"}}

\* C17: the inbound callback, the track_clients update and the reschedule
\* tick exclude each other: a thread inside its handler holds the lock from
\* entry to exit, dispatch and notification included, and no other thread is
\* inside a handler at that time.
C17_MutualExclusion ==
    /\ Cardinality(Inside) <= 1
    /\ \A t \in Inside : lock = t
    /\ Inside = {} => lock = NoThread

\* reschedule has blocked a request and is about to dispatch, its
\* notification still pending, while the callback and the pool update wait
C17_Witness ==
    /\ pc["reschedule"] = "dispatch"
    /\ notification_set # {}
    /\ pc["callback"] = "waiting"
    /\ pc["track_clients"] = "waiting"

Unmatched(e) ==
    \E i \in 1..Len(reqs[e.request].resources) :
        MatchSubsetIn(pool, reqs[e.request].resources[i],
                      {"AVAILABLE", "ALLOCATED"}) = {}

\* the heads the loop of reschedule meets before the first one whose
\* patterns all match
UnmatchedHeads ==
    {e \in PQLive(ready_queue) :
        /\ Unmatched(e)
        /\ \A f \in PQLive(ready_queue) : ElemLess(f, e) => Unmatched(f)}

\* C19: the loop of reschedule moves each head with an unmatched pattern to
\* the blocked queue, sets it WAITING with reason UNAVAILABLE and adds its
\* requester to the notification set; the first head whose patterns all
\* match stays in the ready queue, it and the elements behind it unchanged;
\* dispatch runs afterwards.
C19_RescheduleLoop ==
    [][(pc["reschedule"] = "entered" /\ pc'["reschedule"] # "entered") =>
          /\ \A e \in UnmatchedHeads :
                /\ e \in PQLive(blocked_queue')
                /\ e \notin PQLive(ready_queue')
                /\ reqs'[e.request].status = "WAITING"
                /\ reqs'[e.request].reason = "UNAVAILABLE"
                /\ e.requester_id \in notification_set'
          /\ \A e \in PQLive(ready_queue) \ UnmatchedHeads :
                /\ e \in PQLive(ready_queue')
                /\ reqs'[e.request] = reqs[e.request]
          /\ pc'["reschedule"] = "dispatch"]_vars

\* the step is the while loop of dispatch, run by callback or reschedule
DispatchRuns == \E t \in Threads : pc[t] = "dispatch" /\ pc'[t] # "dispatch"

\* C20: when dispatch has allocated resources for a ready request that its
\* requester has cancelled, grant fails and the resources are released:
\* the request is unchanged and in no queue, every resource not granted to
\* another request in this dispatch has the status and owner it had before,
\* and the loop goes on to the elements that follow.
C20_GrantRace ==
    [][DispatchRuns =>
          \A e \in last'.failed :
              /\ reqs'[e.request] = reqs[e.request]
              /\ ~PQContains(ready_queue', e.request)
              /\ ~PQContains(blocked_queue', e.request)
              /\ DOMAIN pool' = DOMAIN pool
              /\ \A u \in DOMAIN pool :
                    (\A g \in last'.granted :
                        u \notin Range(reqs'[g.request].allocations))
                    => pool'[u] = pool[u]
              /\ \A f \in PQLive(ready_queue) :
                    ElemLess(e, f) =>
                        \/ f \in last'.attempted
                        \/ last'.head # NoElem /\ ElemLess(last'.head, f)]_vars

\* a grant failed for a cancelled request and the request behind it was
\* granted in the same dispatch
C20_Witness ==
    \E e \in last.failed : \E g \in last.granted :
        /\ ElemLess(e, g)
        /\ reqs[e.request].status = "CANCELING"
        /\ reqs[g.request].status = "GRANTED"

\* the step is the loop of callback over the delivered request set
CallbackRuns == pc["callback"] = "entered" /\ pc'["callback"] # "entered"

\* the requests the loop of callback calls free for
Freed ==
    {r \in Requests : /\ reqs[r].status = "CANCELING"
                      /\ RequesterOf(r) \in last'.changers}

\* the node as the step leaves it
After ==
    [Enter EXCEPT !.pool = pool', !.changed = changed', !.reqs = reqs',
                  !.ready_queue = ready_queue',
                  !.blocked_queue = blocked_queue',
                  !.sequence = sequence',
                  !.notification_set = notification_set']

\* C21: after free(rq, requester) for a CANCELING request every resource that
\* was ALLOCATED to rq is AVAILABLE without owner, the resources of other
\* requests are untouched, rq is CLOSED and in neither queue and the
\* requester is in the notification set; a second free of the same request
\* changes nothing further in the pool or the queues.
C21_Free ==
    [][CallbackRuns =>
          /\ DOMAIN pool' = DOMAIN pool
          /\ \A u \in DOMAIN pool :
                pool[u].owner \notin Freed => pool'[u] = pool[u]
          /\ \A r \in Freed :
                /\ \A u \in DOMAIN pool :
                      (pool[u].status = "ALLOCATED" /\ pool[u].owner = r) =>
                          /\ pool'[u].status = "AVAILABLE"
                          /\ pool'[u].owner = NoOwner
                /\ reqs'[r].status = "CLOSED"
                /\ ~PQContains(ready_queue', r)
                /\ ~PQContains(blocked_queue', r)
                /\ RequesterOf(r) \in notification_set'
                /\ LET again == free(After, r, RequesterOf(r))
                   IN /\ again.exc = "none"
                      /\ again.pool = pool'
                      /\ again.ready_queue = ready_queue'
                      /\ again.blocked_queue = blocked_queue'
                      /\ again.reqs = reqs']_vars

\* callback has freed a cancelled request that held a resource while
\* another request keeps the resource granted to it
C21_Witness ==
    /\ pc["callback"] = "dispatch"
    /\ \E r, g \in Requests :
          /\ reqs[r].status = "CLOSED"
          /\ reqs[r].allocations # <<>>
          /\ \A u \in Range(reqs[r].allocations) :
                pool[u].status = "AVAILABLE" /\ pool[u].owner = NoOwner
          /\ reqs[g].status = "GRANTED"
          /\ \A u \in Range(reqs[g].allocations) : pool[u].owner = g

\* the match sets of the probed call
ProbeMatches == _match_list(probe.pre, ProbeItems)

\* the assignment in which each item, in the requested order, has the first
\* URI of its match set that no earlier item has
GreedyChoices ==
    {f \in [1..Len(ProbeItems) -> DOMAIN probe.pre] :
        \A i \in 1..Len(ProbeItems) :
            LET open == ProbeMatches[i] \ {f[j] : j \in 1..(i - 1)}
            IN f[i] \in open /\ \A v \in open : f[i] <= v}

\* more than PermCutoff items, each with an AVAILABLE match, and at least as
\* many URIs in the union of the match sets as items
LongRequest ==
    /\ probe.pc = "done"
    /\ Len(ProbeItems) > PermCutoff
    /\ ProbeMatches # <<>>
    /\ Cardinality(UNION {ProbeMatches[i] : i \in 1..Len(ProbeItems)})
          >= Len(ProbeItems)

\* C22: for more than three items, each with an AVAILABLE match and with a
\* union of match sets of at least n URIs, pool.allocate succeeds exactly
\* when the greedy assignment in the requested order assigns every item, and
\* then returns that assignment; otherwise it returns the empty list,
\* whether or not another order has distinct representatives.
C22_GreedyOnly ==
    LongRequest =>
        /\ probe.alloc # <<>> <=> GreedyChoices # {}
        /\ probe.alloc # <<>> => probe.alloc \in GreedyChoices

\* the empty list is returned although the request has a system of distinct
\* representatives
C22_Witness ==
    /\ LongRequest
    /\ probe.alloc = <<>>
    /\ SDRExists(probe.pre, ProbeItems)

\* C23: track_clients changes only the resource pool: the ready queue, the
\* blocked queue, the notification set and every request are as before, no
\* element moves between the queues, nothing is granted and no notification
\* is sent.
C23_TrackClientsFrame ==
    [][last'.op = "track_clients" =>
          /\ UNCHANGED <<ready_queue, blocked_queue, notification_set, reqs,
                         sequence>>
          /\ last'.granted = {}
          /\ last'.demoted = {}
          /\ last'.attempted = {}
          /\ last'.changers = {}
          /\ last'.notified = <<>>
          /\ last'.published = 0]_vars

\* the pool update has brought back what a blocked request waits for, while
\* another request is ready
C23_Witness ==
    /\ last.op = "track_clients"
    /\ changed
    /\ \E e \in PQLive(blocked_queue) : Retryable(e)
    /\ PQLen(ready_queue) > 0

\* the element's request has an empty pattern list
EmptyRequest(e) == reqs[e.request].resources = <<>>

\* C24: a request with an empty pattern list is never granted: pool.allocate
\* returns the empty list for it, dispatch puts it back at the head of the
\* ready queue and attempts nothing behind it, and the reschedule tick that
\* finds it at the head moves it to the blocked queue.
C24_EmptyRequest ==
    [][/\ \A r \in Requests :
             reqs'[r].resources = <<>> => reqs'[r].status # "GRANTED"
       /\ \A e \in last'.attempted :
             EmptyRequest(e) =>
                 /\ e \notin last'.granted
                 /\ last'.head = e
                 /\ last'.peek = e
                 /\ \A f \in last'.attempted : f = e \/ ElemLess(f, e)
       /\ (/\ last'.op = "reschedule"
           /\ PQLen(ready_queue) > 0
           /\ EmptyRequest(PQPeek(ready_queue)))
             => /\ PQPeek(ready_queue) \in last'.demoted
                /\ PQContains(blocked_queue', PQPeek(ready_queue).request)
                      \/ PQPeek(ready_queue).requester_id \in last'.unknown
      ]_vars

\* thread t leaves the handler that calls dispatch
Returns(t) == Running(t) /\ pc'[t] = "idle"

\* C25: every dispatch and every reschedule terminates: each loop runs at
\* most (length of the ready queue at its start + 1) iterations, a thread
\* that has entered callback or reschedule leaves it, and when it leaves
\* notify_requesters has run and the notification set is empty.
C25_Terminates ==
    /\ [](/\ probe.resched.iters <= probe.resched.len + 1
          /\ probe.disp.iters <= probe.disp.len + 1)
    /\ [][\A t \in {"callback", "reschedule"} :
             Returns(t) => last'.notify_done /\ notification_set' = {}]_vars
    /\ \A t \in {"callback", "reschedule"} :
          (pc[t] = "entered") ~> (pc[t] = "idle")

====
